---- MODULE Spec2Model ----
(***************************************************************************)
(* Model of the request-dispatch core of supertokens-golang:               *)
(*   supertokens/supertokens.go  supertokensInit, sendTelemetry,           *)
(*                               middleware, getAllCORSHeaders,            *)
(*                               errorHandler                              *)
(* Strings are tuples of one-character strings so that strings.HasPrefix   *)
(* and AppendPath are computed on characters, as the code computes them.   *)
(***************************************************************************)
EXTENDS Integers, Sequences, FiniteSets, TLC

(* ---------------- bounds ---------------- *)
\* longest RecipeList a caller passes to supertokensInit
MaxModules == 2

(* ---------------- values ---------------- *)
None == "none"
\* a nil pointer is the empty tuple, a non-nil one the tuple of its target
Nil == << >>
Ptr(v) == <<v>>
Deref(ptr) == ptr[1]

\* error values: tag is what errors.As(err, &BadInputError{}) inspects,
\* by and m name the call that produced the error
NoError == [tag |-> "nil", by |-> "", m |-> 0]
Errors(by, m) ==
    {[tag |-> t, by |-> by, m |-> m] : t \in {"BadInput", "Other"}}
IsBadInputError(err) == err.tag = "BadInput"

Range(s) == {s[i] : i \in 1..Len(s)}

\* strings.HasPrefix(s, prefix)
HasPrefix(s, prefix) ==
    /\ Len(prefix) <= Len(s)
    /\ SubSeq(s, 1, Len(prefix)) = prefix

\* HeaderRID / HeaderFDI, the two fixed protocol headers
HeaderRID == "rid"
HeaderFDI == "fdi-version"

\* NormalisedAppinfo values NormaliseInputAppInfoOrThrowError can produce:
\* without and with an API gateway prefix
AppInfos ==
    { [AppName |-> "app", WebsiteDomain |-> "http://localhost:3000",
       APIGatewayPath |-> << >>, APIBasePath |-> <<"/", "a">>],
      [AppName |-> "app", WebsiteDomain |-> "http://localhost:3000",
       APIGatewayPath |-> <<"/", "g">>,
       APIBasePath |-> <<"/", "g", "/", "a">>] }

\* what a caller may pass as config.AppInfo: an input that normalises to
\* one of AppInfos, or one whose website domain is missing
AppInfoInputs ==
    AppInfos \cup
    { [AppName |-> "app", WebsiteDomain |-> "",
       APIGatewayPath |-> << >>, APIBasePath |-> <<"/", "a">>] }

\* NormaliseInputAppInfoOrThrowError(config.AppInfo)
NormaliseInputAppInfoOrThrowError(input) ==
    IF input.WebsiteDomain # ""
    THEN [err |-> None, val |-> input]
    ELSE [err |-> "appinfo", val |-> input]

\* The recipe modules the factories of a RecipeList can build.  apis lists
\* the (path below the API base path, method, API id) triples the module
\* serves; HandleError tells whether the optional callback is set.
SessionModule ==
    [RecipeID |-> "session", HandleError |-> TRUE,
     cors |-> <<"anti-csrf", "rid">>,
     apis |-> {<< <<"/", "s">>, "POST", "refresh" >>}]
EmailPasswordModule ==
    [RecipeID |-> "emailpassword", HandleError |-> FALSE,
     cors |-> << >>,
     apis |-> {<< <<"/", "s">>, "POST", "signin" >>,
               << <<"/", "t">>, "GET", "exists" >>}]
SecondSessionModule ==
    [RecipeID |-> "session", HandleError |-> TRUE,
     cors |-> <<"anti-csrf", "front-token", "anti-csrf">>,
     apis |-> {<< <<"/", "t">>, "GET", "info" >>}]

Modules == {SessionModule, EmailPasswordModule, SecondSessionModule}

\* a RecipeListFunction either builds its module or fails
RecipeListFunctions ==
    {[fails |-> FALSE, module |-> m] : m \in Modules}
    \cup {[fails |-> TRUE, module |-> SessionModule]}

\* elem(superTokens.AppInfo)
RunFactory(elem, appInfo) ==
    IF elem.fails
    THEN [err |-> "factory", val |-> elem.module]
    ELSE [err |-> None, val |-> elem.module]

\* recipeModule.ReturnAPIIdIfCanHandleRequest(path, method) when reading the
\* module's API table succeeds: the id of the API served at that path and
\* method below the API base path the module was built with, else nil
APIIdFor(module, appInfo, fullPath, method) ==
    LET hits == {a \in module.apis :
                    /\ fullPath = appInfo.APIBasePath \o a[1]
                    /\ method = a[2]}
    IN IF hits = {} THEN None ELSE (CHOOSE a \in hits : TRUE)[3]

\* request inputs: raw URL paths, methods and RID header values
RawPaths ==
    { <<"/", "a", "/", "s">>, <<"/", "a", "/", "s", "/">>,
      <<"/", "a", "/", "t">>, <<"/", "a", "b">>, <<"/", "b">>, <<"%">> }
Methods == {"GET", "POST"}
RIDs == {"", "session", "emailpassword", "unknown"}

\* NewNormalisedURLPath(r.URL.Path): a nil pointer and a BadInputError for
\* a malformed path, else a pointer to the path without trailing slash
NewNormalisedURLPath(raw) ==
    IF "%" \in Range(raw)
    THEN [val |-> Nil, err |-> [tag |-> "BadInput", by |-> "normalise", m |-> 0]]
    ELSE [val |-> Ptr(IF Len(raw) > 0 /\ raw[Len(raw)] = "/"
                      THEN SubSeq(raw, 1, Len(raw) - 1) ELSE raw),
          err |-> NoError]

\* NormalisedURLPath.AppendPath
AppendPath(p, other) == p \o other

\* getRIDFromRequest(r)
getRIDFromRequest(r) == r.rid

SeqsUpTo(S, n) == UNION {[1..k -> S] : k \in 0..n}

RecipeLists == SeqsUpTo(RecipeListFunctions, MaxModules)

OnGeneralErrorFns == {"defaultOnGeneralError", "custom"}

\* the callers of supertokensInit
Callers == {1}

VARIABLES
    superTokensInstance,  \* the package-level singleton pointer
    querierInitCalled,    \* initQuerier has run
    ipc,                  \* per caller: position inside supertokensInit
    ist,                  \* per caller: the local superTokens struct
    initRes,              \* per caller: outcome of its last call
    factoriesRun,         \* per caller: factories invoked by its last call
    corsResult,           \* slice returned by the last getAllCORSHeaders
    pc,                   \* position of the request handler
    req,                  \* the request being served
    reqURL,               \* *NormalisedURLPath returned at line 133
    path,                 \* full path computed at line 137
    idx,                  \* index of middleware's range loop
    ehIdx,                \* index of errorHandler's range loop
    matchedRecipe,        \* index of the module the RID named, 0 if nil
    apiId,                \* API id returned by ReturnAPIIdIfCanHandleRequest
    ehErr,                \* error errorHandler is working on
    ehRet,                \* where the handler continues after errorHandler
    trace,                \* calls made while serving the current request
    res                   \* what has been written to the ResponseWriter

initVars == <<superTokensInstance, querierInitCalled, ipc, ist, initRes,
              factoriesRun>>
reqVars == <<pc, req, reqURL, path, idx, ehIdx, matchedRecipe, apiId, ehErr,
             ehRet, trace, res>>
vars == <<superTokensInstance, querierInitCalled, ipc, ist, initRes,
          factoriesRun, corsResult, pc, req, reqURL, path, idx, ehIdx,
          matchedRecipe, apiId, ehErr, ehRet, trace, res>>

NoRequest == [rawPath |-> << >>, method |-> None, rid |-> ""]
NoResponse == [status |-> 0, body |-> NoError]

Init ==
    /\ superTokensInstance = Nil
    /\ querierInitCalled = FALSE
    /\ ipc = [p \in Callers |-> "idle"]
    /\ ist = [p \in Callers |-> Nil]
    /\ initRes = [p \in Callers |-> None]
    /\ factoriesRun = [p \in Callers |-> 0]
    /\ corsResult = << >>
    /\ pc = "idle"
    /\ req = NoRequest
    /\ reqURL = Nil
    /\ path = << >>
    /\ idx = 0
    /\ ehIdx = 0
    /\ matchedRecipe = 0
    /\ apiId = None
    /\ ehErr = NoError
    /\ ehRet = None
    /\ trace = << >>
    /\ res = NoResponse

(* ---------------- supertokensInit ---------------- *)

\* no request is being served and no supertokensInit call is in progress
Quiescent ==
    /\ pc = "idle"
    /\ \A p \in Callers : ipc[p] = "idle"

\* InitEnter without the check of line 20
InitEnterNoCheck(p) ==
    /\ Quiescent
    /\ factoriesRun' = [factoriesRun EXCEPT ![p] = 0]
    /\ initRes' = [initRes EXCEPT ![p] = None]
    /\ ipc' = [ipc EXCEPT ![p] = "build"]
    /\ UNCHANGED <<superTokensInstance, querierInitCalled, ist, corsResult>>
    /\ UNCHANGED reqVars

\* lines 19-22: a call starts; with the singleton installed it returns nil
InitEnter(p) ==
    /\ Quiescent
    /\ factoriesRun' = [factoriesRun EXCEPT ![p] = 0]
    /\ IF superTokensInstance # Nil
       THEN /\ initRes' = [initRes EXCEPT ![p] = "nil"]
            /\ UNCHANGED ipc
       ELSE /\ initRes' = [initRes EXCEPT ![p] = None]
            /\ ipc' = [ipc EXCEPT ![p] = "build"]
    /\ UNCHANGED <<superTokensInstance, querierInitCalled, ist, corsResult>>
    /\ UNCHANGED reqVars

\* RecipeListMissing without the check of line 56
RecipeListMissingNever(recipeList) == FALSE

\* line 56: config.RecipeList == nil || len(config.RecipeList) == 0
RecipeListMissing(recipeList) == Len(recipeList) = 0

\* the factories of recipeList run in order up to the first failure:
\* the number invoked, whether one failed, and the modules built
FirstFailure(recipeList, appInfo) ==
    LET bad == {i \in 1..Len(recipeList) :
                    RunFactory(recipeList[i], appInfo).err # None}
    IN IF bad = {} THEN 0 ELSE CHOOSE i \in bad : \A j \in bad : i <= j

\* lines 23-66: build the local struct from config
InitBuild(p) ==
    /\ ipc[p] = "build"
    /\ \E onGeneralError \in OnGeneralErrorFns \cup {None},
          appInfoInput \in AppInfoInputs,
          connectionURIOk \in BOOLEAN,
          recipeList \in RecipeLists :
        LET oge == IF onGeneralError # None THEN onGeneralError
                   ELSE "defaultOnGeneralError"
            norm == NormaliseInputAppInfoOrThrowError(appInfoInput)
            ff == FirstFailure(recipeList, norm.val)
            fail(e, q, n) ==
                /\ initRes' = [initRes EXCEPT ![p] = e]
                /\ ipc' = [ipc EXCEPT ![p] = "idle"]
                /\ querierInitCalled' = (querierInitCalled \/ q)
                /\ factoriesRun' = [factoriesRun EXCEPT ![p] = n]
                /\ UNCHANGED ist
        IN  IF norm.err # None THEN fail("err-appinfo", FALSE, 0)
            ELSE IF ~connectionURIOk THEN fail("err-host", FALSE, 0)
            ELSE IF RecipeListMissing(recipeList)
                 THEN fail("err-norecipe", TRUE, 0)
            ELSE IF ff # 0 THEN fail("err-factory", TRUE, ff)
            ELSE /\ ist' = [ist EXCEPT ![p] =
                              Ptr([AppInfo |-> norm.val,
                                   RecipeModules |->
                                       [i \in 1..Len(recipeList) |->
                                           RunFactory(recipeList[i],
                                                      norm.val).val],
                                   OnGeneralError |-> oge])]
                 /\ ipc' = [ipc EXCEPT ![p] = "telemetry"]
                 /\ querierInitCalled' = TRUE
                 /\ factoriesRun' = [factoriesRun EXCEPT ![p] =
                                        Len(recipeList)]
                 /\ UNCHANGED initRes
    /\ UNCHANGED <<superTokensInstance, corsResult>>
    /\ UNCHANGED reqVars

\* sendTelemetry, lines 88-129: "error" when the querier or the HTTP call
\* fails, "panic" when line 108 dereferences a nil superTokensInstance
SendTelemetryOutcomes ==
    {"error"} \cup (IF superTokensInstance = Nil THEN {"panic"} ELSE {"sent"})

\* lines 68-71: optional telemetry, its errors are ignored
InitTelemetry(p) ==
    /\ ipc[p] = "telemetry"
    /\ \E telemetry \in BOOLEAN :
        \E outcome \in (IF telemetry THEN SendTelemetryOutcomes
                        ELSE {"skipped"}) :
            IF outcome = "panic"
            THEN /\ ipc' = [ipc EXCEPT ![p] = "idle"]
                 /\ initRes' = [initRes EXCEPT ![p] = "panic"]
                 /\ ist' = [ist EXCEPT ![p] = Nil]
            ELSE /\ ipc' = [ipc EXCEPT ![p] = "install"]
                 /\ UNCHANGED <<initRes, ist>>
    /\ UNCHANGED <<superTokensInstance, querierInitCalled, factoriesRun,
                   corsResult>>
    /\ UNCHANGED reqVars

\* lines 73-74: install the singleton and return nil
InitInstall(p) ==
    /\ ipc[p] = "install"
    /\ superTokensInstance' = ist[p]
    /\ ist' = [ist EXCEPT ![p] = Nil]
    /\ ipc' = [ipc EXCEPT ![p] = "idle"]
    /\ initRes' = [initRes EXCEPT ![p] = "nil"]
    /\ UNCHANGED <<querierInitCalled, factoriesRun, corsResult>>
    /\ UNCHANGED reqVars

\* getInstanceOrThrowError, lines 81-86
getInstanceOrThrowError ==
    IF superTokensInstance # Nil
    THEN [val |-> superTokensInstance, err |-> None]
    ELSE [val |-> Nil, err |-> "initialisation not done"]

(* ---------------- middleware ---------------- *)

\* the receiver s of middleware, getAllCORSHeaders and errorHandler
S == Deref(superTokensInstance)
NumModules == Len(S.RecipeModules)

Event(op, m, err, id) == [op |-> op, m |-> m, err |-> err, id |-> id]

\* theirHandler.ServeHTTP(w, r)
ServeFallback(tr) == Append(tr, Event("fallback", 0, NoError, None))

\* s.errorHandler(err, r, w) is entered; ret is where the handler goes on
\* once errorHandler has returned
EnterErrorHandler(tr, err, ret) ==
    /\ pc' = "errorHandler"
    /\ ehErr' = err
    /\ ehRet' = ret
    /\ ehIdx' = 0
    /\ trace' = Append(tr, Event("errorHandler", 0, err, None))

\* a request arrives at the handler middleware returned
StartRequest ==
    /\ Quiescent
    /\ superTokensInstance # Nil
    /\ \E rawPath \in RawPaths, method \in Methods, rid \in RIDs :
        req' = [rawPath |-> rawPath, method |-> method, rid |-> rid]
    /\ pc' = "normalise"
    /\ corsResult' = << >>
    /\ UNCHANGED <<reqURL, path, idx, ehIdx, matchedRecipe, apiId, ehErr,
                   ehRet, trace, res>>
    /\ UNCHANGED initVars

\* the handler has returned, or its panic has been recovered by the server:
\* the request and the handler's locals are gone
MwReturn ==
    /\ pc \in {"done", "panicked"}
    /\ pc' = "idle"
    /\ req' = NoRequest
    /\ reqURL' = Nil
    /\ path' = << >>
    /\ idx' = 0
    /\ ehIdx' = 0
    /\ matchedRecipe' = 0
    /\ apiId' = None
    /\ ehErr' = NoError
    /\ ehRet' = None
    /\ trace' = << >>
    /\ res' = NoResponse
    /\ UNCHANGED corsResult
    /\ UNCHANGED initVars

\* lines 133-136: normalise the request path; an error goes to errorHandler
\* and the handler then goes on to line 137
MwNormalise ==
    /\ pc = "normalise"
    /\ LET r == NewNormalisedURLPath(req.rawPath)
       IN /\ reqURL' = r.val
          /\ IF r.err # NoError
             THEN EnterErrorHandler(trace, r.err, "append")
             ELSE /\ pc' = "append"
                  /\ UNCHANGED <<ehErr, ehRet, ehIdx, trace>>
    /\ UNCHANGED <<req, path, idx, matchedRecipe, apiId, res, corsResult>>
    /\ UNCHANGED initVars

\* lines 137-138: path := s.AppInfo.APIGatewayPath.AppendPath(*reqURL);
\* dereferencing a nil reqURL panics
MwAppendPath ==
    /\ pc = "append"
    /\ IF reqURL = Nil
       THEN /\ pc' = "panicked"
            /\ UNCHANGED path
       ELSE /\ path' = AppendPath(S.AppInfo.APIGatewayPath, Deref(reqURL))
            /\ pc' = "basecheck"
    /\ UNCHANGED <<req, reqURL, idx, ehIdx, matchedRecipe, apiId, ehErr,
                   ehRet, trace, res, corsResult>>
    /\ UNCHANGED initVars

\* MwBaseCheck without the return of line 142: the fallback handler serves
\* and routing goes on
MwBaseCheckNoReturn ==
    /\ pc = "basecheck"
    /\ IF ~HasPrefix(path, S.AppInfo.APIBasePath)
       THEN trace' = ServeFallback(trace)
       ELSE UNCHANGED trace
    /\ pc' = "ridlookup"
    /\ UNCHANGED <<req, reqURL, path, idx, ehIdx, matchedRecipe, apiId, ehErr,
                   ehRet, res, corsResult>>
    /\ UNCHANGED initVars

\* lines 140-143: outside the API base path the fallback handler serves
MwBaseCheck ==
    /\ pc = "basecheck"
    /\ IF ~HasPrefix(path, S.AppInfo.APIBasePath)
       THEN /\ trace' = ServeFallback(trace)
            /\ pc' = "done"
       ELSE /\ pc' = "ridlookup"
            /\ UNCHANGED trace
    /\ UNCHANGED <<req, reqURL, path, idx, ehIdx, matchedRecipe, apiId, ehErr,
                   ehRet, res, corsResult>>
    /\ UNCHANGED initVars

\* MatchRecipe without the comparison of line 148
MatchRecipeFirstModule(modules, requestRID) ==
    IF Len(modules) > 0 THEN 1 ELSE 0

\* the first module whose GetRecipeID() equals requestRID, 0 if none
MatchRecipe(modules, requestRID) ==
    LET hits == {i \in 1..Len(modules) : modules[i].RecipeID = requestRID}
    IN IF hits = {} THEN 0 ELSE CHOOSE i \in hits : \A j \in hits : i <= j

\* MwRIDLookup starting the positional scan when the RID names no module
MwRIDLookupFallsToScan ==
    /\ pc = "ridlookup"
    /\ LET requestRID == getRIDFromRequest(req)
           matched == MatchRecipe(S.RecipeModules, requestRID)
       IN IF requestRID # "" /\ matched # 0
          THEN /\ matchedRecipe' = matched
               /\ pc' = "ridCanHandle"
               /\ UNCHANGED <<idx, trace>>
          ELSE /\ idx' = 1
               /\ pc' = "scan"
               /\ UNCHANGED <<matchedRecipe, trace>>
    /\ UNCHANGED <<req, reqURL, path, ehIdx, apiId, ehErr, ehRet, res,
                   corsResult>>
    /\ UNCHANGED initVars

\* lines 144-156 and 174: read the RID; with an RID find the module it
\* names, fallback if there is none; without an RID start the scan
MwRIDLookup ==
    /\ pc = "ridlookup"
    /\ LET requestRID == getRIDFromRequest(req)
           matched == MatchRecipe(S.RecipeModules, requestRID)
       IN IF requestRID # ""
          THEN /\ matchedRecipe' = matched
               /\ IF matched = 0
                  THEN /\ trace' = ServeFallback(trace)
                       /\ pc' = "done"
                  ELSE /\ pc' = "ridCanHandle"
                       /\ UNCHANGED trace
               /\ UNCHANGED idx
          ELSE /\ idx' = 1
               /\ pc' = "scan"
               /\ UNCHANGED <<matchedRecipe, trace>>
    /\ UNCHANGED <<req, reqURL, path, ehIdx, apiId, ehErr, ehRet, res,
                   corsResult>>
    /\ UNCHANGED initVars

\* what module i's ReturnAPIIdIfCanHandleRequest(path, method) can return:
\* the id from its API table (or nil), or an error
CanHandleOutcomes(i) ==
    {[id |-> APIIdFor(S.RecipeModules[i], S.AppInfo, path, req.method),
      err |-> NoError]}
    \cup {[id |-> None, err |-> e] :
             e \in Errors("ReturnAPIIdIfCanHandleRequest", i)}

(* ---------------- recipe/session/refresh.go ---------------- *)

\* apiImplementation.RefreshPOST: a nil pointer, a pointer to a nil
\* function, or a pointer to the function in use
RefreshImplementations == {Nil, Ptr("nil"), Ptr("RefreshPOST")}

\* the error (*apiImplementation.RefreshPOST)(options, userContext) returns
RefreshPOSTOutcomes(i) == {NoError} \cup Errors("RefreshPOST", i)

\* the error Send200Response(options.Res, nil) returns
Send200ResponseOutcomes(i) ==
    {NoError, [tag |-> "Other", by |-> "Send200Response", m |-> i]}

\* the response Send200Response(res, nil) writes
EmptyBody(i) == [tag |-> "nil", by |-> "Send200Response", m |-> i]

ImplementationKind(refreshPOST) ==
    IF refreshPOST = Nil THEN "nil"
    ELSE IF Deref(refreshPOST) = "nil" THEN "nil func" ELSE "func"

\* HandleRefreshAPI without the return of line 26: after the fallback
\* handler has served, the success response is written as well
HandleRefreshAPINoReturn(i, refreshPOST, overrideErr, sendErr) ==
    LET entered == Event("HandleRefreshAPI", i, NoError,
                         ImplementationKind(refreshPOST))
    IN IF refreshPOST = Nil \/ Deref(refreshPOST) = "nil"
       THEN [did |-> "responded", err |-> NoError, body |-> EmptyBody(i),
             calls |-> <<entered, Event("fallback", i, NoError, None),
                         Event("Send200Response", i, NoError, "written")>>]
       ELSE IF overrideErr # NoError
       THEN [did |-> "failed", err |-> overrideErr, body |-> EmptyBody(i),
             calls |-> <<[entered EXCEPT !.err = overrideErr],
                         Event("RefreshPOST", i, overrideErr, None)>>]
       ELSE [did |-> IF sendErr = NoError THEN "responded" ELSE "failed",
             err |-> sendErr, body |-> EmptyBody(i),
             calls |-> <<[entered EXCEPT !.err = sendErr],
                         Event("RefreshPOST", i, NoError, None),
                         Event("Send200Response", i, sendErr,
                               IF sendErr = NoError THEN "written"
                               ELSE "failed")>>]

\* HandleRefreshAPI dropping the error of line 28: the success response is
\* written and nil returned whatever RefreshPOST returned
HandleRefreshAPISwallowsError(i, refreshPOST, overrideErr, sendErr) ==
    LET entered == Event("HandleRefreshAPI", i, NoError,
                         ImplementationKind(refreshPOST))
    IN IF refreshPOST = Nil \/ Deref(refreshPOST) = "nil"
       THEN [did |-> "passthrough", err |-> NoError, body |-> EmptyBody(i),
             calls |-> <<entered, Event("fallback", i, NoError, None)>>]
       ELSE [did |-> IF sendErr = NoError THEN "responded" ELSE "failed",
             err |-> sendErr, body |-> EmptyBody(i),
             calls |-> <<[entered EXCEPT !.err = sendErr],
                         Event("RefreshPOST", i, overrideErr, None),
                         Event("Send200Response", i, sendErr,
                               IF sendErr = NoError THEN "written"
                               ELSE "failed")>>]

\* HandleRefreshAPI(apiImplementation, options) called by module i, for the
\* errors its RefreshPOST and Send200Response calls return when made: the
\* error it returns, what it did, and its calls in order
HandleRefreshAPI(i, refreshPOST, overrideErr, sendErr) ==
    LET entered == Event("HandleRefreshAPI", i, NoError,
                         ImplementationKind(refreshPOST))
    IN IF refreshPOST = Nil \/ Deref(refreshPOST) = "nil"
       THEN [did |-> "passthrough", err |-> NoError, body |-> EmptyBody(i),
             calls |-> <<entered, Event("fallback", i, NoError, None)>>]
       ELSE IF overrideErr # NoError
       THEN [did |-> "failed", err |-> overrideErr, body |-> EmptyBody(i),
             calls |-> <<[entered EXCEPT !.err = overrideErr],
                         Event("RefreshPOST", i, overrideErr, None)>>]
       ELSE [did |-> IF sendErr = NoError THEN "responded" ELSE "failed",
             err |-> sendErr, body |-> EmptyBody(i),
             calls |-> <<[entered EXCEPT !.err = sendErr],
                         Event("RefreshPOST", i, NoError, None),
                         Event("Send200Response", i, sendErr,
                               IF sendErr = NoError THEN "written"
                               ELSE "failed")>>]

\* the API id the session recipe serves with HandleRefreshAPI
RefreshAPIId == "refresh"

(* ---------------- middleware, continued ---------------- *)

\* what module i's HandleAPIRequest can do: for the refresh API what
\* HandleRefreshAPI does; for any other write its response, pass the
\* request to the fallback handler it was given, or return an error
HandleAPIOutcomes(i) ==
    IF apiId = RefreshAPIId
    THEN {HandleRefreshAPI(i, f, e1, e2) :
             f \in RefreshImplementations, e1 \in RefreshPOSTOutcomes(i),
             e2 \in Send200ResponseOutcomes(i)}
    ELSE {[did |-> "responded", err |-> NoError,
           body |-> [tag |-> "nil", by |-> "module", m |-> i],
           calls |-> << >>],
          [did |-> "passthrough", err |-> NoError,
           body |-> [tag |-> "nil", by |-> "module", m |-> i],
           calls |-> <<Event("fallback", i, NoError, None)>>]}
         \cup {[did |-> "failed", err |-> e,
                body |-> [tag |-> "nil", by |-> "module", m |-> i],
                calls |-> << >>] :
                   e \in Errors("HandleAPIRequest", i)}

\* the trace and response after module i's HandleAPIRequest(id, ...) ran
\* with outcome o; a fallback call made by the module carries its index
AfterHandleAPI(tr, i, id, o) ==
    Append(tr, Event("HandleAPIRequest", i, o.err, id)) \o o.calls

ResAfterHandleAPI(rs, i, o) ==
    IF o.did = "responded"
    THEN [status |-> 200, body |-> o.body]
    ELSE rs

\* lines 158-168: ask the module the RID named
MwRIDCanHandle ==
    /\ pc = "ridCanHandle"
    /\ \E o \in CanHandleOutcomes(matchedRecipe) :
        LET called == Append(trace, Event("ReturnAPIIdIfCanHandleRequest",
                                          matchedRecipe, o.err, o.id))
        IN IF o.err # NoError
           THEN /\ EnterErrorHandler(called, o.err, "done")
                /\ UNCHANGED apiId
           ELSE IF o.id = None
           THEN /\ trace' = ServeFallback(called)
                /\ pc' = "done"
                /\ UNCHANGED <<apiId, ehErr, ehRet, ehIdx>>
           ELSE /\ trace' = called
                /\ apiId' = o.id
                /\ pc' = "ridHandle"
                /\ UNCHANGED <<ehErr, ehRet, ehIdx>>
    /\ UNCHANGED <<req, reqURL, path, idx, matchedRecipe, res, corsResult>>
    /\ UNCHANGED initVars

\* HandleAPIRequest on module i, then errorHandler for the error it returns
\* (lines 169-173 and 183-188)
CallHandleAPIRequest(i) ==
    \E o \in HandleAPIOutcomes(i) :
        LET called == AfterHandleAPI(trace, i, apiId, o)
        IN /\ res' = ResAfterHandleAPI(res, i, o)
           /\ IF o.err # NoError
              THEN EnterErrorHandler(called, o.err, "done")
              ELSE /\ trace' = called
                   /\ pc' = "done"
                   /\ UNCHANGED <<ehErr, ehRet, ehIdx>>

\* MwRIDHandle with the fallback call of line 191 placed after the if/else:
\* the fallback handler also serves once the module has handled the API
MwRIDHandleFallsThrough ==
    /\ pc = "ridHandle"
    /\ \E o \in HandleAPIOutcomes(matchedRecipe) :
        LET called == AfterHandleAPI(trace, matchedRecipe, apiId, o)
        IN /\ res' = ResAfterHandleAPI(res, matchedRecipe, o)
           /\ IF o.err # NoError
              THEN EnterErrorHandler(called, o.err, "done")
              ELSE /\ trace' = ServeFallback(called)
                   /\ pc' = "done"
                   /\ UNCHANGED <<ehErr, ehRet, ehIdx>>
    /\ UNCHANGED <<req, reqURL, path, idx, matchedRecipe, apiId, corsResult>>
    /\ UNCHANGED initVars

\* lines 169-173: the module the RID named handles the API
MwRIDHandle ==
    /\ pc = "ridHandle"
    /\ CallHandleAPIRequest(matchedRecipe)
    /\ UNCHANGED <<req, reqURL, path, idx, matchedRecipe, apiId, corsResult>>
    /\ UNCHANGED initVars

\* MwScan without the return of line 180: after the error chain the scan
\* goes on with the next module
MwScanContinuesAfterError ==
    /\ pc = "scan"
    /\ IF idx > NumModules
       THEN /\ trace' = ServeFallback(trace)
            /\ pc' = "done"
            /\ UNCHANGED <<idx, apiId, ehErr, ehRet, ehIdx>>
       ELSE \E o \in CanHandleOutcomes(idx) :
            LET called == Append(trace, Event("ReturnAPIIdIfCanHandleRequest",
                                              idx, o.err, o.id))
            IN IF o.err # NoError
               THEN /\ EnterErrorHandler(called, o.err, "scan")
                    /\ idx' = idx + 1
                    /\ UNCHANGED apiId
               ELSE IF o.id # None
               THEN /\ trace' = called
                    /\ apiId' = o.id
                    /\ pc' = "scanHandle"
                    /\ UNCHANGED <<idx, ehErr, ehRet, ehIdx>>
               ELSE /\ trace' = called
                    /\ idx' = idx + 1
                    /\ UNCHANGED <<pc, apiId, ehErr, ehRet, ehIdx>>
    /\ UNCHANGED <<req, reqURL, path, matchedRecipe, res, corsResult>>
    /\ UNCHANGED initVars

\* lines 175-182 and 191: without an RID ask the modules in order
MwScan ==
    /\ pc = "scan"
    /\ IF idx > NumModules
       THEN /\ trace' = ServeFallback(trace)
            /\ pc' = "done"
            /\ UNCHANGED <<idx, apiId, ehErr, ehRet, ehIdx>>
       ELSE \E o \in CanHandleOutcomes(idx) :
            LET called == Append(trace, Event("ReturnAPIIdIfCanHandleRequest",
                                              idx, o.err, o.id))
            IN IF o.err # NoError
               THEN /\ EnterErrorHandler(called, o.err, "done")
                    /\ UNCHANGED <<idx, apiId>>
               ELSE IF o.id # None
               THEN /\ trace' = called
                    /\ apiId' = o.id
                    /\ pc' = "scanHandle"
                    /\ UNCHANGED <<idx, ehErr, ehRet, ehIdx>>
               ELSE /\ trace' = called
                    /\ idx' = idx + 1
                    /\ UNCHANGED <<pc, apiId, ehErr, ehRet, ehIdx>>
    /\ UNCHANGED <<req, reqURL, path, matchedRecipe, res, corsResult>>
    /\ UNCHANGED initVars

\* MwScanHandle without the return of line 188: the scan goes on after the
\* module has handled the API
MwScanHandleContinue ==
    /\ pc = "scanHandle"
    /\ \E o \in HandleAPIOutcomes(idx) :
        LET called == AfterHandleAPI(trace, idx, apiId, o)
        IN /\ res' = ResAfterHandleAPI(res, idx, o)
           /\ IF o.err # NoError
              THEN /\ EnterErrorHandler(called, o.err, "done")
                   /\ UNCHANGED idx
              ELSE /\ trace' = called
                   /\ pc' = "scan"
                   /\ idx' = idx + 1
                   /\ UNCHANGED <<ehErr, ehRet, ehIdx>>
    /\ UNCHANGED <<req, reqURL, path, matchedRecipe, apiId, corsResult>>
    /\ UNCHANGED initVars

\* lines 183-188: the module that claimed the request handles the API
MwScanHandle ==
    /\ pc = "scanHandle"
    /\ CallHandleAPIRequest(idx)
    /\ UNCHANGED <<req, reqURL, path, idx, matchedRecipe, apiId, corsResult>>
    /\ UNCHANGED initVars

(* ---------------- errorHandler ---------------- *)

\* s.OnGeneralError(err, req, res): defaultOnGeneralError writes the message
\* with status 500 when the response can still be written; a custom handler
\* is only recorded
OnGeneralErrorTrace(tr, err) ==
    Append(tr, Event("OnGeneralError", 0, err, None))

OnGeneralErrorRes(rs, err, writable) ==
    IF S.OnGeneralError = "defaultOnGeneralError" /\ writable /\ rs.status = 0
    THEN [status |-> 500, body |-> err]
    ELSE rs

\* EhBadInput without the return of line 217: after the 400 answer the
\* walk over the modules starts as for any other error
EhBadInputNoReturn ==
    /\ pc = "errorHandler"
    /\ IF IsBadInputError(ehErr)
       THEN /\ \E catcher \in BOOLEAN :
                IF catcher
                THEN /\ trace' = OnGeneralErrorTrace(
                                    Append(trace, Event("SendNon200Response",
                                                        0, ehErr, "failed")),
                                    ehErr)
                     /\ res' = OnGeneralErrorRes(res, ehErr, FALSE)
                ELSE /\ trace' = Append(trace, Event("SendNon200Response",
                                                     0, ehErr, "written"))
                     /\ res' = [status |-> 400, body |-> ehErr]
            /\ ehIdx' = 1
            /\ pc' = "ehLoop"
       ELSE /\ ehIdx' = 1
            /\ pc' = "ehLoop"
            /\ UNCHANGED <<trace, res>>
    /\ UNCHANGED <<req, reqURL, path, idx, matchedRecipe, apiId, ehErr, ehRet,
                   corsResult>>
    /\ UNCHANGED initVars

\* EhBadInput handing the write failure, not the BadInputError, to
\* OnGeneralError
EhBadInputEscalatesCatcher ==
    /\ pc = "errorHandler"
    /\ IF IsBadInputError(ehErr)
       THEN /\ \E catcher \in BOOLEAN :
                IF catcher
                THEN /\ trace' = OnGeneralErrorTrace(
                                    Append(trace, Event("SendNon200Response",
                                                        0, ehErr, "failed")),
                                    [tag |-> "Other",
                                     by |-> "SendNon200Response", m |-> 0])
                     /\ res' = OnGeneralErrorRes(res, ehErr, FALSE)
                ELSE /\ trace' = Append(trace, Event("SendNon200Response",
                                                     0, ehErr, "written"))
                     /\ res' = [status |-> 400, body |-> ehErr]
            /\ pc' = ehRet
            /\ UNCHANGED ehIdx
       ELSE /\ ehIdx' = 1
            /\ pc' = "ehLoop"
            /\ UNCHANGED <<trace, res>>
    /\ UNCHANGED <<req, reqURL, path, idx, matchedRecipe, apiId, ehErr, ehRet,
                   corsResult>>
    /\ UNCHANGED initVars

\* lines 213-218: a BadInputError is answered with 400, and handed to
\* OnGeneralError when that write fails; any other error starts the walk
EhBadInput ==
    /\ pc = "errorHandler"
    /\ IF IsBadInputError(ehErr)
       THEN /\ \E catcher \in BOOLEAN :
                IF catcher
                THEN /\ trace' = OnGeneralErrorTrace(
                                    Append(trace, Event("SendNon200Response",
                                                        0, ehErr, "failed")),
                                    ehErr)
                     /\ res' = OnGeneralErrorRes(res, ehErr, FALSE)
                ELSE /\ trace' = Append(trace, Event("SendNon200Response",
                                                     0, ehErr, "written"))
                     /\ res' = [status |-> 400, body |-> ehErr]
            /\ pc' = ehRet
            /\ UNCHANGED ehIdx
       ELSE /\ ehIdx' = 1
            /\ pc' = "ehLoop"
            /\ UNCHANGED <<trace, res>>
    /\ UNCHANGED <<req, reqURL, path, idx, matchedRecipe, apiId, ehErr, ehRet,
                   corsResult>>
    /\ UNCHANGED initVars

\* EscalatedError handing on the error errorHandler was called with
EscalatedErrorOriginal(original, err2) == original

\* lines 221-223: the error handed to OnGeneralError when HandleError
\* returned err2 for the error original
EscalatedError(original, err2) == err2

\* what module i's HandleError(err, req, res) can return
HandleErrorOutcomes(i) ==
    {[handled |-> h, err |-> e] :
        h \in BOOLEAN, e \in {NoError} \cup Errors("HandleError", i)}

HandleErrorResult(o) ==
    IF o.err # NoError THEN "error"
    ELSE IF o.handled THEN "handled" ELSE "declined"

\* EhLoop without the return of line 227: the walk goes on after a module
\* has handled the error
EhLoopNoReturnWhenHandled ==
    /\ pc = "ehLoop"
    /\ IF ehIdx > NumModules
       THEN /\ trace' = OnGeneralErrorTrace(trace, ehErr)
            /\ res' = OnGeneralErrorRes(res, ehErr, TRUE)
            /\ pc' = ehRet
            /\ UNCHANGED ehIdx
       ELSE IF ~S.RecipeModules[ehIdx].HandleError
       THEN /\ ehIdx' = ehIdx + 1
            /\ UNCHANGED <<pc, trace, res>>
       ELSE \E o \in HandleErrorOutcomes(ehIdx) :
            LET called == Append(trace, Event("HandleError", ehIdx, ehErr,
                                              HandleErrorResult(o)))
            IN IF o.err # NoError
               THEN /\ trace' = OnGeneralErrorTrace(
                                    called, EscalatedError(ehErr, o.err))
                    /\ res' = OnGeneralErrorRes(
                                    res, EscalatedError(ehErr, o.err), TRUE)
                    /\ pc' = ehRet
                    /\ UNCHANGED ehIdx
               ELSE IF o.handled
               THEN /\ trace' = called
                    /\ res' = [status |-> 401,
                               body |-> [tag |-> "nil", by |-> "module",
                                         m |-> ehIdx]]
                    /\ ehIdx' = ehIdx + 1
                    /\ UNCHANGED pc
               ELSE /\ trace' = called
                    /\ ehIdx' = ehIdx + 1
                    /\ UNCHANGED <<pc, res>>
    /\ UNCHANGED <<req, reqURL, path, idx, matchedRecipe, apiId, ehErr, ehRet,
                   corsResult>>
    /\ UNCHANGED initVars

\* EhLoop returning at line 227 whatever handled is: the walk ends at the
\* first module that has a HandleError
EhLoopStopsOnDecline ==
    /\ pc = "ehLoop"
    /\ IF ehIdx > NumModules
       THEN /\ trace' = OnGeneralErrorTrace(trace, ehErr)
            /\ res' = OnGeneralErrorRes(res, ehErr, TRUE)
            /\ pc' = ehRet
            /\ UNCHANGED ehIdx
       ELSE IF ~S.RecipeModules[ehIdx].HandleError
       THEN /\ ehIdx' = ehIdx + 1
            /\ UNCHANGED <<pc, trace, res>>
       ELSE \E o \in HandleErrorOutcomes(ehIdx) :
            LET called == Append(trace, Event("HandleError", ehIdx, ehErr,
                                              HandleErrorResult(o)))
            IN IF o.err # NoError
               THEN /\ trace' = OnGeneralErrorTrace(
                                    called, EscalatedError(ehErr, o.err))
                    /\ res' = OnGeneralErrorRes(
                                    res, EscalatedError(ehErr, o.err), TRUE)
                    /\ pc' = ehRet
                    /\ UNCHANGED ehIdx
               ELSE IF o.handled
               THEN /\ trace' = called
                    /\ res' = [status |-> 401,
                               body |-> [tag |-> "nil", by |-> "module",
                                         m |-> ehIdx]]
                    /\ pc' = ehRet
                    /\ UNCHANGED ehIdx
               ELSE /\ trace' = called
                    /\ pc' = ehRet
                    /\ UNCHANGED <<ehIdx, res>>
    /\ UNCHANGED <<req, reqURL, path, idx, matchedRecipe, apiId, ehErr, ehRet,
                   corsResult>>
    /\ UNCHANGED initVars

\* lines 219-231: one iteration of the walk over s.RecipeModules, or the
\* final OnGeneralError once the walk is over
EhLoop ==
    /\ pc = "ehLoop"
    /\ IF ehIdx > NumModules
       THEN /\ trace' = OnGeneralErrorTrace(trace, ehErr)
            /\ res' = OnGeneralErrorRes(res, ehErr, TRUE)
            /\ pc' = ehRet
            /\ UNCHANGED ehIdx
       ELSE IF ~S.RecipeModules[ehIdx].HandleError
       THEN /\ ehIdx' = ehIdx + 1
            /\ UNCHANGED <<pc, trace, res>>
       ELSE \E o \in HandleErrorOutcomes(ehIdx) :
            LET called == Append(trace, Event("HandleError", ehIdx, ehErr,
                                              HandleErrorResult(o)))
            IN IF o.err # NoError
               THEN /\ trace' = OnGeneralErrorTrace(
                                    called, EscalatedError(ehErr, o.err))
                    /\ res' = OnGeneralErrorRes(
                                    res, EscalatedError(ehErr, o.err), TRUE)
                    /\ pc' = ehRet
                    /\ UNCHANGED ehIdx
               ELSE IF o.handled
               THEN /\ trace' = called
                    /\ res' = [status |-> 401,
                               body |-> [tag |-> "nil", by |-> "module",
                                         m |-> ehIdx]]
                    /\ pc' = ehRet
                    /\ UNCHANGED ehIdx
               ELSE /\ trace' = called
                    /\ ehIdx' = ehIdx + 1
                    /\ UNCHANGED <<pc, res>>
    /\ UNCHANGED <<req, reqURL, path, idx, matchedRecipe, apiId, ehErr, ehRet,
                   corsResult>>
    /\ UNCHANGED initVars

(* ---------------- getAllCORSHeaders ---------------- *)

\* HeaderMapAfter starting from an empty map
RECURSIVE HeaderMapAfterNoFixed(_, _)
HeaderMapAfterNoFixed(modules, k) ==
    IF k = 0 THEN {}
    ELSE HeaderMapAfterNoFixed(modules, k - 1) \cup Range(modules[k].cors)

\* lines 197-203: headerMap after the first k modules have been visited
RECURSIVE HeaderMapAfter(_, _)
HeaderMapAfter(modules, k) ==
    IF k = 0 THEN {HeaderRID, HeaderFDI}
    ELSE HeaderMapAfter(modules, k - 1) \cup Range(modules[k].cors)

\* lines 204-208: the keys of headerMap appended in map iteration order,
\* which Go leaves unspecified
KeysInSomeOrder(headerMap) ==
    {f \in [1..Cardinality(headerMap) -> headerMap] :
        \A i, j \in 1..Cardinality(headerMap) : f[i] = f[j] => i = j}

getAllCORSHeaders(s) ==
    KeysInSomeOrder(HeaderMapAfter(s.RecipeModules, Len(s.RecipeModules)))

\* a call of getAllCORSHeaders on the installed singleton
GetAllCORSHeaders ==
    /\ Quiescent
    /\ superTokensInstance # Nil
    /\ corsResult' \in getAllCORSHeaders(S)
    /\ UNCHANGED initVars
    /\ UNCHANGED reqVars

Next ==
    \/ \E p \in Callers : InitEnter(p)
    \/ \E p \in Callers : InitBuild(p)
    \/ \E p \in Callers : InitTelemetry(p)
    \/ \E p \in Callers : InitInstall(p)
    \/ GetAllCORSHeaders
    \/ StartRequest
    \/ MwNormalise
    \/ MwAppendPath
    \/ MwBaseCheck
    \/ MwRIDLookup
    \/ MwRIDCanHandle
    \/ MwRIDHandle
    \/ MwScan
    \/ MwScanHandle
    \/ EhBadInput
    \/ EhLoop
    \/ MwReturn

Spec == Init /\ [][Next]_vars

(* ---------------- concurrent supertokensInit calls ---------------- *)

\* goroutines that each call supertokensInit once, with nothing ordering
\* their steps
MaxGoroutines == 2
Goroutines == 1..MaxGoroutines

InitConcurrent ==
    /\ superTokensInstance = Nil
    /\ querierInitCalled = FALSE
    /\ ipc = [p \in Goroutines |-> "idle"]
    /\ ist = [p \in Goroutines |-> Nil]
    /\ initRes = [p \in Goroutines |-> None]
    /\ factoriesRun = [p \in Goroutines |-> 0]
    /\ corsResult = << >>
    /\ pc = "idle"
    /\ req = NoRequest
    /\ reqURL = Nil
    /\ path = << >>
    /\ idx = 0
    /\ ehIdx = 0
    /\ matchedRecipe = 0
    /\ apiId = None
    /\ ehErr = NoError
    /\ ehRet = None
    /\ trace = << >>
    /\ res = NoResponse

\* the values the unsynchronised read of line 20 can return: the pointer
\* as it is, or nil while no synchronisation orders another goroutine's
\* write of line 73 before the read
RacyRead == {superTokensInstance, Nil}

\* lines 19-22 on goroutine p, whatever the other goroutines are doing
InitEnterConcurrent(p) ==
    /\ ipc[p] = "idle"
    /\ initRes[p] = None
    /\ \E seen \in RacyRead :
          IF seen # Nil
          THEN /\ initRes' = [initRes EXCEPT ![p] = "nil"]
               /\ UNCHANGED ipc
          ELSE /\ ipc' = [ipc EXCEPT ![p] = "build"]
               /\ UNCHANGED initRes
    /\ UNCHANGED <<superTokensInstance, querierInitCalled, ist, factoriesRun,
                   corsResult>>
    /\ UNCHANGED reqVars

NextConcurrent ==
    \/ \E p \in Goroutines : InitEnterConcurrent(p)
    \/ \E p \in Goroutines : InitBuild(p)
    \/ \E p \in Goroutines : InitTelemetry(p)
    \/ \E p \in Goroutines : InitInstall(p)

SpecConcurrent == InitConcurrent /\ [][NextConcurrent]_vars

(* ---------------- properties ---------------- *)

\* positions of the trace where op was called
Calls(op) == {k \in 1..Len(trace) : trace[k].op = op}
Count(op) == Cardinality(Calls(op))

\* a request is being served or has just been served
Serving == pc # "idle"

\* the request's path normalises, and its full path
Normalises == NewNormalisedURLPath(req.rawPath).err = NoError
FullPath ==
    S.AppInfo.APIGatewayPath \o Deref(NewNormalisedURLPath(req.rawPath).val)
StartsWithBasePath ==
    LET base == S.AppInfo.APIBasePath
    IN /\ Len(FullPath) >= Len(base)
       /\ \A k \in 1..Len(base) : FullPath[k] = base[k]
OutsideBasePath == Serving /\ Normalises /\ ~StartsWithBasePath
InsideBasePath == Serving /\ Normalises /\ StartsWithBasePath

\* C1: a request whose full path does not start with the API base path gets
\* the fallback handler exactly once and no call of any module method,
\* with or without an RID header
C1_OutsideBasePathFallbackOnly ==
    OutsideBasePath =>
        /\ \A k \in 1..Len(trace) : trace[k].op = "fallback"
        /\ Len(trace) <= 1
        /\ (pc = "done" => Len(trace) = 1)
        /\ pc # "panicked"

C1_Witness ==
    /\ OutsideBasePath
    /\ pc = "done"
    /\ req.rid = "session"
    /\ \E i \in 1..NumModules : S.RecipeModules[i].RecipeID = req.rid
    /\ trace = <<Event("fallback", 0, NoError, None)>>

\* the RID header names a registered module
RIDRegistered ==
    \E i \in 1..NumModules : S.RecipeModules[i].RecipeID = req.rid

\* C2: inside the API base path, with an RID that is the RecipeID of a
\* registered module, ReturnAPIIdIfCanHandleRequest is called at most once
\* and only on a module with that RecipeID, and no other module has
\* ReturnAPIIdIfCanHandleRequest or HandleAPIRequest called
C2_RIDModuleOnly ==
    (InsideBasePath /\ req.rid # "" /\ RIDRegistered) =>
        /\ Count("ReturnAPIIdIfCanHandleRequest") <= 1
        /\ \A k \in Calls("ReturnAPIIdIfCanHandleRequest")
                    \cup Calls("HandleAPIRequest") :
              /\ S.RecipeModules[trace[k].m].RecipeID = req.rid
              /\ \A j \in 1..(trace[k].m - 1) :
                    S.RecipeModules[j].RecipeID # req.rid
        /\ (pc = "done" => Count("ReturnAPIIdIfCanHandleRequest") = 1)

C2_Witness ==
    /\ InsideBasePath
    /\ pc = "done"
    /\ req.rid = "emailpassword"
    /\ NumModules = 2
    /\ S.RecipeModules[1].RecipeID = "session"
    /\ S.RecipeModules[2].RecipeID = "emailpassword"
    /\ APIIdFor(S.RecipeModules[1], S.AppInfo, FullPath, req.method) # None
    /\ Count("ReturnAPIIdIfCanHandleRequest") = 1
    /\ \E k \in Calls("HandleAPIRequest") : trace[k].m = 2

\* the ids the modules would return for the request, by position
WouldClaim(i) ==
    APIIdFor(S.RecipeModules[i], S.AppInfo, FullPath, req.method) # None

\* C3: inside the API base path without an RID the modules are asked in
\* registration order; the first one returning an API id has
\* HandleAPIRequest called with that id, no module after it is asked or
\* called, and when every module declines the fallback handler serves
\* exactly once
C3_FirstClaimantHandles ==
    (InsideBasePath /\ req.rid = "") =>
        LET asked == Calls("ReturnAPIIdIfCanHandleRequest")
            handled == Calls("HandleAPIRequest")
        IN /\ \A k \in asked : trace[k].m = Cardinality({j \in asked : j <= k})
           /\ Cardinality(handled) <= 1
           /\ \A k \in asked :
                 trace[k].id # None =>
                    /\ \A j \in asked \cup handled : trace[j].m <= trace[k].m
                    /\ \A j \in handled :
                          /\ trace[j].m = trace[k].m
                          /\ trace[j].id = trace[k].id
                          /\ j = k + 1
                    /\ (pc = "done" => Cardinality(handled) = 1)
                    /\ WouldClaim(trace[k].m)
                    /\ \A i \in 1..(trace[k].m - 1) : ~WouldClaim(i)
           /\ \A j \in handled : \E k \in asked :
                 trace[k].id # None /\ trace[k].m = trace[j].m
           /\ (pc = "done" /\ Cardinality(asked) = NumModules
               /\ \A k \in asked : trace[k].id = None /\ trace[k].err = NoError)
              => /\ Count("fallback") = 1
                 /\ handled = {}
                 /\ Count("errorHandler") = 0

C3_Witness ==
    /\ InsideBasePath
    /\ req.rid = ""
    /\ pc = "done"
    /\ NumModules = 2
    /\ ~WouldClaim(1)
    /\ WouldClaim(2)
    /\ Count("ReturnAPIIdIfCanHandleRequest") = 2
    /\ \E k \in Calls("HandleAPIRequest") :
          trace[k].m = 2 /\ trace[k].err = NoError

\* the BadInputErrors raised while serving the request: those handed to
\* errorHandler by middleware and those a HandleError returned
BadInputRaised ==
    {trace[k].err : k \in {j \in Calls("errorHandler")
                                 \cup Calls("OnGeneralError") :
                              IsBadInputError(trace[j].err)}}
WriteFailed ==
    \E k \in Calls("SendNon200Response") : trace[k].id = "failed"

\* C4: when a BadInputError was raised while serving a request, at any
\* stage, and the response can be written, the request ends with a 400
\* response carrying that error's message
C4_BadInputAlways400 ==
    (pc \in {"done", "panicked"} /\ BadInputRaised # {} /\ ~WriteFailed) =>
        /\ pc = "done"
        /\ res.status = 400
        /\ res.body \in BadInputRaised

\* C5: when the HandleError of the module at position i returns an error
\* err2, OnGeneralError is invoked exactly once, with err2 and not with the
\* error errorHandler was called with, and no HandleError of a later module
\* is invoked
C5_HandleErrorFailureEscalates ==
    \A k \in Calls("HandleError") :
        trace[k].id = "error" =>
            /\ ~IsBadInputError(trace[k].err)
            /\ Len(trace) = k + 1
            /\ trace[k + 1].op = "OnGeneralError"
            /\ trace[k + 1].err.by = "HandleError"
            /\ trace[k + 1].err.m = trace[k].m
            /\ trace[k + 1].err # trace[k].err
            /\ Count("OnGeneralError") = 1
            /\ \A j \in Calls("HandleError") : trace[j].m <= trace[k].m

C5_Witness ==
    /\ pc = "done"
    /\ NumModules = 2
    /\ S.RecipeModules[1].HandleError
    /\ S.RecipeModules[2].HandleError
    /\ \E k \in Calls("HandleError") :
          /\ trace[k].m = 1
          /\ trace[k].id = "error"
          /\ trace[k].err.by = "HandleAPIRequest"
          /\ trace[k + 1] = Event("OnGeneralError", 0,
                                  [tag |-> "Other", by |-> "HandleError",
                                   m |-> 1], None)

\* the headers the registered modules declare
DeclaredHeaders ==
    UNION {Range(S.RecipeModules[i].cors) : i \in 1..NumModules}

\* C6: getAllCORSHeaders returns, as a set, the RID header, the FDI version
\* header and every header a module declares, each exactly once
C6_CORSHeadersExactUnion ==
    corsResult # << >> =>
        /\ Range(corsResult) = {HeaderRID, HeaderFDI} \cup DeclaredHeaders
        /\ \A i, j \in 1..Len(corsResult) :
              corsResult[i] = corsResult[j] => i = j

C6_Witness ==
    /\ corsResult # << >>
    /\ Len(corsResult) = 4
    /\ \E i \in 1..NumModules : HeaderRID \in Range(S.RecipeModules[i].cors)
    /\ \E i \in 1..NumModules :
          Len(S.RecipeModules[i].cors) >
              Cardinality(Range(S.RecipeModules[i].cors))

\* C7: once the singleton is installed, a supertokensInit call returns nil
\* at once: the singleton stays as the first successful call set it, no
\* call goes on to build a struct and no recipe factory runs
C7_LaterInitIsNoOp ==
    [][superTokensInstance # Nil =>
         /\ superTokensInstance' = superTokensInstance
         /\ querierInitCalled' = querierInitCalled
         /\ \A p \in Callers :
               /\ ipc'[p] = "idle"
               /\ initRes'[p] = "nil"
               /\ factoriesRun'[p] \in {0, factoriesRun[p]}]_vars

C7_Witness ==
    /\ superTokensInstance # Nil
    /\ Quiescent
    /\ initRes[1] = "nil"
    /\ factoriesRun[1] = 0

\* C8: an installed singleton holds at least one RecipeModule; a call that
\* returned the empty-recipe-list error or a factory's error left the
\* singleton uninstalled; getInstanceOrThrowError returns an error until a
\* call has succeeded
C8_InstalledHasRecipes ==
    /\ superTokensInstance # Nil => Len(S.RecipeModules) >= 1
    /\ \A p \in Callers :
          initRes[p] \in {"err-norecipe", "err-factory", "err-appinfo",
                          "err-host", "panic"}
             => /\ superTokensInstance = Nil
                /\ getInstanceOrThrowError.err # None
    /\ getInstanceOrThrowError.err = None
          => /\ \E p \in Callers : initRes[p] = "nil"
             /\ Len(Deref(getInstanceOrThrowError.val).RecipeModules) >= 1

C8_Witness ==
    /\ initRes[1] = "err-norecipe"
    /\ querierInitCalled
    /\ superTokensInstance = Nil
    /\ getInstanceOrThrowError.err # None

\* C9: when normalising the request path fails, the error goes to the
\* error chain exactly once and the handler stops: no fallback, no module
\* asked or called, no later routing step
C9_NormaliseFailureStops ==
    (Serving /\ ~Normalises) =>
        /\ pc \in {"normalise", "errorHandler", "done"}
        /\ Count("errorHandler") <= 1
        /\ (pc = "done" => Count("errorHandler") = 1)
        /\ Count("fallback") = 0
        /\ Count("ReturnAPIIdIfCanHandleRequest") = 0
        /\ Count("HandleAPIRequest") = 0

\* C10: inside the API base path with an RID, the positional scan never
\* runs; when the RID names no registered module, or the module it names
\* returns no API id, the fallback handler serves exactly once and no
\* HandleAPIRequest is called
C10_RIDNeverScans ==
    (InsideBasePath /\ req.rid # "") =>
        /\ pc \notin {"scan", "scanHandle"}
        /\ idx = 0
        /\ (pc = "done"
            /\ \/ ~RIDRegistered
               \/ \E k \in Calls("ReturnAPIIdIfCanHandleRequest") :
                     trace[k].id = None /\ trace[k].err = NoError)
           => /\ Count("fallback") = 1
              /\ Count("HandleAPIRequest") = 0
              /\ Count("errorHandler") = 0
              /\ Count("ReturnAPIIdIfCanHandleRequest") <= 1
              /\ (~RIDRegistered
                     => Count("ReturnAPIIdIfCanHandleRequest") = 0)

C10_Witness ==
    /\ InsideBasePath
    /\ pc = "done"
    /\ req.rid = "session"
    /\ NumModules = 2
    /\ S.RecipeModules[1].RecipeID = "session"
    /\ ~WouldClaim(1)
    /\ WouldClaim(2)
    /\ trace = <<Event("ReturnAPIIdIfCanHandleRequest", 1, NoError, None),
                 Event("fallback", 0, NoError, None)>>


\* fallback calls made by middleware itself, not by a module
DispatcherFallbacks == {k \in Calls("fallback") : trace[k].m = 0}

\* C12: per request HandleAPIRequest is invoked at most once, and
\* middleware itself never invokes the fallback handler together with a
\* HandleAPIRequest or the error chain
C12_AtMostOneRoute ==
    Serving =>
        /\ Count("HandleAPIRequest") <= 1
        /\ Cardinality(DispatcherFallbacks) <= 1
        /\ DispatcherFallbacks # {} =>
              /\ Count("HandleAPIRequest") = 0
              /\ Count("errorHandler") = 0
              /\ Count("ReturnAPIIdIfCanHandleRequest") <= NumModules
        /\ \A k \in Calls("HandleAPIRequest") :
              /\ k > 1
              /\ trace[k - 1].op = "ReturnAPIIdIfCanHandleRequest"
              /\ trace[k - 1].m = trace[k].m
              /\ trace[k - 1].id = trace[k].id

C12_Witness ==
    /\ pc = "done"
    /\ Count("HandleAPIRequest") = 1
    /\ Count("fallback") = 1
    /\ DispatcherFallbacks = {}
    /\ req.rid = ""
    /\ \E k \in Calls("HandleAPIRequest") : trace[k].m = 2

\* errorHandler was invoked for the request and has returned
ErrorHandlerReturned ==
    Serving /\ Count("errorHandler") = 1 /\ pc \notin {"errorHandler", "ehLoop"}
\* the error errorHandler was invoked with
HandedErrors == {trace[k].err : k \in Calls("errorHandler")}
Handled == {k \in Calls("HandleError") : trace[k].id = "handled"}
Declined == {k \in Calls("HandleError") : trace[k].id = "declined"}
Written400 == {k \in Calls("SendNon200Response") : trace[k].id = "written"}
\* the modules of the installed list that expose a HandleError
Exposing == {i \in 1..NumModules : S.RecipeModules[i].HandleError}

\* C13: an errorHandler invocation ends with exactly one responder having
\* acted: the 400 writer, one module's HandleError reporting handled, or
\* OnGeneralError; never none, never a handled HandleError together with
\* OnGeneralError
C13_ExactlyOneResponder ==
    Serving =>
        LET responders == Written400 \cup Handled \cup Calls("OnGeneralError")
        IN /\ Cardinality(responders) <= 1
           /\ Count("errorHandler") = 0 => responders = {}
           /\ ErrorHandlerReturned => Cardinality(responders) = 1
           /\ Written400 # {} => \A e \in HandedErrors : IsBadInputError(e)
           /\ ~(Handled # {} /\ Count("OnGeneralError") > 0)

C13_Witness ==
    /\ ErrorHandlerReturned
    /\ pc = "done"
    /\ Count("OnGeneralError") = 0
    /\ Written400 = {}
    /\ \E k \in Handled : trace[k].m = 2
    /\ \E k \in Declined : trace[k].m = 1

\* the failed HandleAPIRequest calls of the request
FailedAPICalls ==
    {k \in Calls("HandleAPIRequest") :
        trace[k].err # NoError /\ ~IsBadInputError(trace[k].err)}

\* C14 as stated: an error other than a BadInputError returned by module
\* M's HandleAPIRequest is resolved by no HandleError but M's own when M
\* exposes one, and reaches OnGeneralError only when M has no HandleError
\* or M's HandleError declined
C14_OriginatingModuleResolves ==
    Serving =>
        \A h \in FailedAPICalls :
            LET M == trace[h].m
                e == trace[h].err
            IN /\ M \in Exposing => \A j \in Handled : trace[j].m = M
               /\ \A g \in Calls("OnGeneralError") :
                     trace[g].err = e =>
                        \/ M \notin Exposing
                        \/ \E d \in Declined : trace[d].m = M

\* C14 amended: an error other than a BadInputError returned by module M's
\* HandleAPIRequest is offered to the HandleError functions in registration
\* order from the first module on; the first one reporting handled
\* resolves it, M's own only when every exposing module before M declined;
\* it reaches OnGeneralError only when every exposing module declined
C14_FirstHandlerInOrderResolves ==
    Serving =>
        \A h \in FailedAPICalls :
            LET e == trace[h].err
            IN /\ \A j \in Calls("HandleError") : j > h /\ trace[j].err = e
               /\ \A j \in Handled :
                     /\ \A i \in Exposing :
                           i < trace[j].m =>
                              \E d \in Declined : d < j /\ trace[d].m = i
                     /\ Count("OnGeneralError") = 0
                     /\ Cardinality(Handled) = 1
               /\ \A g \in Calls("OnGeneralError") :
                     trace[g].err = e =>
                        \A i \in Exposing :
                           \E d \in Declined : d < g /\ trace[d].m = i

C14_Witness ==
    /\ pc = "done"
    /\ \E h \in FailedAPICalls : trace[h].m = 2
    /\ 2 \in Exposing
    /\ \E j \in Handled : trace[j].m = 1
    /\ res.status = 401

\* C15: in the scan without an RID, an error returned by a module's
\* ReturnAPIIdIfCanHandleRequest stops the scan: the error goes to the
\* error chain exactly once, no later module is asked or called, and
\* the fallback handler is not invoked
C15_ScanErrorStops ==
    (InsideBasePath /\ req.rid = "") =>
        \A k \in Calls("ReturnAPIIdIfCanHandleRequest") :
            trace[k].err # NoError =>
               /\ Count("errorHandler") = 1
               /\ k < Len(trace)
               /\ trace[k + 1] = Event("errorHandler", 0, trace[k].err, None)
               /\ \A j \in Calls("ReturnAPIIdIfCanHandleRequest") :
                     j <= k /\ trace[j].m <= trace[k].m
               /\ Count("HandleAPIRequest") = 0
               /\ Count("fallback") = 0

C15_Witness ==
    /\ InsideBasePath
    /\ req.rid = ""
    /\ pc = "done"
    /\ NumModules = 2
    /\ WouldClaim(2)
    /\ \E k \in Calls("ReturnAPIIdIfCanHandleRequest") :
          trace[k].m = 1 /\ trace[k].err # NoError

\* C16: for an error other than a BadInputError the HandleError functions
\* are invoked in registration order, modules without one skipped, each
\* with the original error; the walk stops at the first one reporting
\* handled, with no OnGeneralError; when every module declined or has
\* none, OnGeneralError is invoked exactly once with the original error
C16_WalkInRegistrationOrder ==
    Serving =>
        \A e \in {x \in HandedErrors : ~IsBadInputError(x)} :
            LET hs == Calls("HandleError")
            IN /\ \A j \in hs :
                     /\ trace[j].err = e
                     /\ trace[j].m \in Exposing
                     /\ \A i \in Exposing :
                           i < trace[j].m =>
                              \E d \in hs : d < j /\ trace[d].m = i
               /\ \A j1, j2 \in hs :
                     j1 < j2 => /\ trace[j1].m < trace[j2].m
                                /\ trace[j1].id = "declined"
               /\ Handled # {} => Count("OnGeneralError") = 0
               /\ Count("OnGeneralError") <= 1
               /\ Count("SendNon200Response") = 0
               /\ (ErrorHandlerReturned /\ hs = Declined) =>
                     /\ {trace[d].m : d \in Declined} = Exposing
                     /\ Count("OnGeneralError") = 1
                     /\ \A g \in Calls("OnGeneralError") :
                           trace[g].err = e /\ g = Len(trace)

C16_Witness ==
    /\ ErrorHandlerReturned
    /\ pc = "done"
    /\ NumModules = 2
    /\ Exposing = {2}
    /\ Count("HandleError") = 1
    /\ \E d \in Declined : trace[d].m = 2
    /\ \E g \in Calls("OnGeneralError") : trace[g].err \in HandedErrors

\* C17: for a BadInputError no HandleError is invoked, a 400 write is
\* attempted exactly once, and OnGeneralError is invoked exactly when
\* that write fails, with the BadInputError itself
C17_BadInputWrites400Once ==
    Serving =>
        \A e \in {x \in HandedErrors : IsBadInputError(x)} :
            /\ Count("HandleError") = 0
            /\ Count("SendNon200Response") <= 1
            /\ \A k \in Calls("SendNon200Response") : trace[k].err = e
            /\ Count("OnGeneralError") = (IF WriteFailed THEN 1 ELSE 0)
            /\ \A g \in Calls("OnGeneralError") : trace[g].err = e
            /\ ErrorHandlerReturned => Count("SendNon200Response") = 1

C17_Witness ==
    /\ ErrorHandlerReturned
    /\ pc = "done"
    /\ WriteFailed
    /\ \E e \in HandedErrors : IsBadInputError(e) /\ e.by = "HandleAPIRequest"
    /\ Count("OnGeneralError") = 1

\* the HandleRefreshAPI calls made without, and with, a RefreshPOST
RefreshAbsent ==
    {k \in Calls("HandleRefreshAPI") : trace[k].id \in {"nil", "nil func"}}
RefreshPresent == {k \in Calls("HandleRefreshAPI") : trace[k].id = "func"}

\* C18: without a RefreshPOST, HandleRefreshAPI invokes the fallback
\* handler it was given exactly once, returns nil so that the error chain
\* is not entered, and writes no success response
C18_RefreshAbsentFallsBack ==
    Serving =>
        \A k \in RefreshAbsent :
            /\ trace[k].err = NoError
            /\ trace[k - 1] =
                  Event("HandleAPIRequest", trace[k].m, NoError, RefreshAPIId)
            /\ Len(trace) = k + 1
            /\ trace[k + 1] = Event("fallback", trace[k].m, NoError, None)
            /\ Count("fallback") = 1
            /\ Count("RefreshPOST") = 0
            /\ Count("Send200Response") = 0
            /\ Count("errorHandler") = 0
            /\ res = NoResponse

C18_Witness ==
    /\ pc = "done"
    /\ \E k \in RefreshAbsent : trace[k].id = "nil func" /\ trace[k].m = 2
    /\ Count("fallback") = 1

\* C19: with a RefreshPOST, HandleRefreshAPI invokes it exactly once and
\* never the fallback handler; an error it returns is returned unchanged
\* with no success response written; without an error a 200 response with
\* an empty body is written exactly once
C19_RefreshOverrideRuns ==
    Serving =>
        \A k \in RefreshPresent :
            /\ Count("RefreshPOST") = 1
            /\ Count("fallback") = 0
            /\ Len(trace) > k
            /\ trace[k + 1].op = "RefreshPOST"
            /\ trace[k + 1].m = trace[k].m
            /\ trace[k - 1] = Event("HandleAPIRequest", trace[k].m,
                                    trace[k].err, RefreshAPIId)
            /\ trace[k + 1].err # NoError =>
                  /\ trace[k].err = trace[k + 1].err
                  /\ Count("Send200Response") = 0
                  /\ res.status # 200
                  /\ Len(trace) > k + 1
                  /\ trace[k + 2] =
                        Event("errorHandler", 0, trace[k + 1].err, None)
            /\ trace[k + 1].err = NoError =>
                  /\ Count("Send200Response") = 1
                  /\ Len(trace) > k + 1
                  /\ trace[k + 2].op = "Send200Response"
                  /\ trace[k + 2].m = trace[k].m
                  /\ trace[k].err = trace[k + 2].err
                  /\ trace[k + 2].id = "written" =>
                        /\ res = [status |-> 200, body |-> EmptyBody(trace[k].m)]
                        /\ Len(trace) = k + 2
                        /\ trace[k].err = NoError

C19_Witness ==
    /\ pc = "done"
    /\ \E k \in RefreshPresent :
          /\ trace[k].err.by = "RefreshPOST"
          /\ trace[k].err.tag = "Other"
    /\ Count("errorHandler") = 1
    /\ Count("Send200Response") = 0

C19_WitnessWritten ==
    /\ pc = "done"
    /\ \E k \in RefreshPresent : trace[k].err = NoError
    /\ res.status = 200
    /\ Count("Send200Response") = 1

\* the goroutines whose call ran recipe factories, and those whose call
\* installed the struct it built
RanFactories == {p \in Goroutines : factoriesRun[p] > 0}
Installers ==
    {p \in Goroutines : initRes[p] = "nil" /\ factoriesRun[p] > 0}

\* C11: with concurrent supertokensInit calls the singleton is created
\* exactly once: at most one call installs its configuration, the installed
\* singleton never changes afterwards, and recipe factories run for at
\* most one of the calls
C11_ConcurrentInitCreatesOnce ==
    [][/\ superTokensInstance # Nil =>
             superTokensInstance' = superTokensInstance
       /\ Cardinality(Installers') <= 1
       /\ Cardinality(RanFactories') <= 1]_vars

\* C20: a first supertokensInit call with a valid configuration and
\* telemetry enabled goes on from the telemetry step to install the
\* singleton and return nil, whatever sendTelemetry did, and sendTelemetry
\* does not read the singleton before it is installed
C20_TelemetryNeverBlocksInstall ==
    [][\A p \in Callers :
          ipc[p] = "telemetry" =>
             /\ ipc'[p] \in {"telemetry", "install"}
             /\ initRes'[p] # "panic"]_vars

====
